---- MODULE Spec2Model ----
(***************************************************************************)
(* Model of server.js (src/unnamed/part_000): the lottery results store.   *)
(*                                                                         *)
(* A contest record is modelled by its contest number (numero); the other  *)
(* upstream fields are opaque to the program.  A fetch that the program    *)
(* turns into null is the number 0 (fetchContestData maps numero 0 to      *)
(* null as well).  A document, in memory or on disk, is the ordered list   *)
(* of its keys with their arrays, which is what JSON.stringify writes and  *)
(* JSON.parse rebuilds: a JavaScript object keeps string keys in insertion *)
(* order.  fs.writeFile opens the file truncating it and then writes the   *)
(* text, so a write is two steps with an unparseable file in between.      *)
(*                                                                         *)
(* The two read routes of server.js are followed one request at a time.    *)
(* monitor-loterias.js (src/monitor-loterias.js) is a program of its own,  *)
(* with its own file loterias.json; its state is left alone by the steps   *)
(* of server.js and the other way round.                                   *)
(***************************************************************************)
EXTENDS Integers, Sequences, FiniteSets, TLC

\* The supported games, in iteration order (two of the nine of the source).
LOTTERY_GAMES == <<"lotofacil", "megasena">>

\* Size of a stored window (500 in the source, scaled down).
CONTESTS_TO_STORE == 2

\* Highest contest number the upstream publishes in the model.
MaxContest == 4

\* Number of updateDatabase runs that may be in flight at once.
MaxPasses == 2

Games == {LOTTERY_GAMES[i] : i \in 1..Len(LOTTERY_GAMES)}
Passes == 1..MaxPasses
Absent == 0

VARIABLES
    latest,      \* upstream: latest published contest number of each game
    fileStatus,  \* db.json: "missing", "partial" (truncated, text not written), "ok"
    fileData,    \* db.json: the document it holds when fileStatus = "ok"
    committed,   \* history: the document of the last completed write
    pcI,         \* initializeDatabase: position
    giI,         \* initializeDatabase: index of the game being processed
    dbI,         \* initializeDatabase: local `database`
    logI,        \* history: fetches initializeDatabase issued, with their results
    pc,          \* updateDatabase runs: position
    gi,          \* updateDatabase runs: index of the game being processed
    db,          \* updateDatabase runs: local `database`
    readDoc,     \* history: the document each run read at its start
    log,         \* history: fetches each run issued, with their results
    missed,      \* history: per game, the numbers whose fetch was null in the last completed run
    settled,     \* upstream: the games whose latest contest is final and is served without failure
    qpc,         \* request handler: position ("idle", "reading", "answered")
    req,         \* request handler: the route and req.params.gameName
    res,         \* request handler: the status and body sent
    qread,       \* history: the handler called fs.readFile
    mpc,         \* monitor-loterias.js, fetchLoteriaData: position
    mi,          \* fetchLoteriaData: index of the lottery being fetched
    resultados,  \* fetchLoteriaData: local `resultados`
    timestamp,   \* fetchLoteriaData: local `timestamp`
    mlog,        \* history: what each request of the run returned
    now,         \* the clock new Date() reads
    loteriasJson \* loterias.json: the document it holds (empty before the first write)

vars == <<latest, fileStatus, fileData, committed, pcI, giI, dbI, logI,
          pc, gi, db, readDoc, log, missed, settled, qpc, req, res, qread,
          mpc, mi, resultados, timestamp, mlog, now, loteriasJson>>
fileVars == <<fileStatus, fileData, committed>>
initVars == <<pcI, giI, dbI, logI>>
passVars == <<pc, gi, db, readDoc, log>>
queryVars == <<qpc, req, res, qread>>
monitorVars == <<mpc, mi, resultados, timestamp, mlog, now, loteriasJson>>
\* What the steps of initializeDatabase and updateDatabase leave alone
otherVars == <<missed, settled, queryVars, monitorVars>>
\* The state of server.js and of its upstream
serverVars == <<latest, fileVars, initVars, passVars, missed, settled, queryVars>>

----------------------------------------------------------------------------
\* Sequences of contest numbers

RECURSIVE InsertAsc(_, _)
InsertAsc(x, s) ==
    IF s = <<>> THEN <<x>>
    ELSE IF x < Head(s) THEN <<x>> \o s
    ELSE <<Head(s)>> \o InsertAsc(x, Tail(s))

RECURSIVE InsertDesc(_, _)
InsertDesc(x, s) ==
    IF s = <<>> THEN <<x>>
    ELSE IF x > Head(s) THEN <<x>> \o s
    ELSE <<Head(s)>> \o InsertDesc(x, Tail(s))

\* .sort((a, b) => a.numero - b.numero)
RECURSIVE SortAsc(_)
SortAsc(s) ==
    IF s = <<>> THEN <<>>
    ELSE InsertAsc(s[Len(s)], SortAsc(SubSeq(s, 1, Len(s) - 1)))

\* .sort((a, b) => b.numero - a.numero)
RECURSIVE SortDesc(_)
SortDesc(s) ==
    IF s = <<>> THEN <<>>
    ELSE InsertDesc(s[Len(s)], SortDesc(SubSeq(s, 1, Len(s) - 1)))

\* .slice(0, n)
Slice(s, n) == SubSeq(s, 1, IF Len(s) < n THEN Len(s) ELSE n)

\* .filter(r => r !== null)
NotNull(s) == SelectSeq(s, LAMBDA r : r # Absent)

Range(s) == {s[i] : i \in 1..Len(s)}

\* Mutant of MaxOf: the number of the first (oldest) stored record
FirstOf(s) == IF s = <<>> THEN 0 ELSE s[1]

\* Mutant of MaxOf: the number of stored records taken for the latest stored number
MaxOfLength(s) == Len(s)

\* Math.max(...storedContests.map(c => c.numero)), 0 for an empty array
MaxOf(s) == IF s = <<>> THEN 0 ELSE CHOOSE m \in Range(s) : \A x \in Range(s) : x <= m

----------------------------------------------------------------------------
\* Documents: sequences of [game, contests] in key order

HasKey(doc, g) == \E i \in 1..Len(doc) : doc[i].game = g

\* database[game] || []
Get(doc, g) ==
    IF HasKey(doc, g)
    THEN doc[CHOOSE i \in 1..Len(doc) : doc[i].game = g].contests
    ELSE <<>>

\* database[game] = w
Put(doc, g, w) ==
    IF HasKey(doc, g)
    THEN [i \in 1..Len(doc) |->
            IF doc[i].game = g THEN [game |-> g, contests |-> w] ELSE doc[i]]
    ELSE Append(doc, [game |-> g, contests |-> w])

----------------------------------------------------------------------------
\* fetchContestData

\* fetchContestData(game): the latest contest, or null (request failed, or numero 0)
LatestOutcomes(g) == {Absent, latest[g]}

\* fetchContestData(game, k) for each k of nums, in order, when the requests
\* for the numbers in ok succeed
FetchAll(nums, ok) == [i \in 1..Len(nums) |-> IF nums[i] \in ok THEN nums[i] ELSE Absent]

\* The log entries of a game's fetches: the latest-check (number 0), then the numbered ones
LogOf(g, r, nums, results) ==
    <<<<g, 0, r>>>> \o [i \in 1..Len(nums) |-> <<g, nums[i], results[i]>>]

\* What a log says about a game: the result of the latest-check, the numbers
\* fetched, and the numbers whose fetch succeeded
Checked(l, g) == \E i \in 1..Len(l) : l[i][1] = g /\ l[i][2] = 0
LatestResult(l, g) ==
    IF Checked(l, g) THEN l[CHOOSE i \in 1..Len(l) : l[i][1] = g /\ l[i][2] = 0][3]
    ELSE Absent
Fetched(l, g) == {l[i][2] : i \in {j \in 1..Len(l) : l[j][1] = g /\ l[j][2] # 0}}
Succeeded(l, g) ==
    {l[i][3] : i \in {j \in 1..Len(l) : l[j][1] = g /\ l[j][2] # 0 /\ l[j][3] # Absent}}

----------------------------------------------------------------------------
\* initializeDatabase, per game

\* Mutant of BootstrapNumbers: the loop runs while i <= CONTESTS_TO_STORE
BootstrapNumbersInclusive(L) ==
    LET n == IF L < CONTESTS_TO_STORE + 1 THEN L ELSE CONTESTS_TO_STORE + 1
    IN  [i \in 1..n |-> L - (i - 1)]

\* for (i = 0; i < CONTESTS_TO_STORE; i++) if (latest - i > 0) push(fetch(latest - i))
BootstrapNumbers(L) ==
    LET n == IF L < CONTESTS_TO_STORE THEN L ELSE CONTESTS_TO_STORE
    IN  [i \in 1..n |-> L - (i - 1)]

\* Mutant of BootstrapWindow: the sort is left out, the results stay in fetch order
BootstrapWindowUnsorted(results) == NotNull(results)

\* results.filter(r => r !== null).sort(ascending)
BootstrapWindow(results) == SortAsc(NotNull(results))

\* The body of the loop over the games: r is the result of the latest-check,
\* ok the numbers whose fetch succeeds
BootstrapGame(doc, g, r, ok) ==
    IF r = Absent THEN doc
    ELSE Put(doc, g, BootstrapWindow(FetchAll(BootstrapNumbers(r), ok)))

BootstrapLog(g, r, ok) ==
    IF r = Absent THEN LogOf(g, r, <<>>, <<>>)
    ELSE LogOf(g, r, BootstrapNumbers(r), FetchAll(BootstrapNumbers(r), ok))

----------------------------------------------------------------------------
\* updateDatabase, per game

\* Mutant of NewNumbers: the loop starts at latestStoredNumber
NewNumbersFromStored(ls, L) == [i \in 1..(L - ls + 1) |-> ls + i - 1]

\* for (num = latestStoredNumber + 1; num <= latestApiNumber; num++)
NewNumbers(ls, L) == [i \in 1..(L - ls) |-> ls + i]

\* Mutant of Merge: the slice is left out
MergeNoSlice(stored, newResults) == SortAsc(SortDesc(stored \o newResults))

\* Mutant of Merge: the slice is taken of the ascending order
MergeKeepOldest(stored, newResults) ==
    SortAsc(Slice(SortAsc(stored \o newResults), CONTESTS_TO_STORE))

\* [...storedContests, ...newResults].sort(desc).slice(0, CONTESTS_TO_STORE).sort(asc)
Merge(stored, newResults) ==
    SortAsc(Slice(SortDesc(stored \o newResults), CONTESTS_TO_STORE))

\* if (latestApiNumber > latestStoredNumber)
HasNews(doc, g, r) == r > MaxOf(Get(doc, g))

\* The numbered fetches of a game whose latest-check returned r
UpdateNumbers(doc, g, r) ==
    IF r # Absent /\ HasNews(doc, g, r) THEN NewNumbers(MaxOf(Get(doc, g)), r) ELSE <<>>

\* The body of the loop over the games
UpdateGame(doc, g, r, ok) ==
    IF r = Absent THEN doc
    ELSE IF HasNews(doc, g, r)
         THEN LET newResults == NotNull(FetchAll(UpdateNumbers(doc, g, r), ok))
              IN  IF Len(newResults) > 0
                  THEN Put(doc, g, Merge(Get(doc, g), newResults))
                  ELSE doc
         ELSE doc

UpdateLog(doc, g, r, ok) ==
    LogOf(g, r, UpdateNumbers(doc, g, r), FetchAll(UpdateNumbers(doc, g, r), ok))

\* Mutant of AfterGame: the write is inside the loop
AfterGameWrite(i) == "write"

\* Where a run goes after the game of index i: the write follows the last game
AfterGame(i) == IF i = Len(LOTTERY_GAMES) THEN "write" ELSE "game"

\* Mutant of AfterAbsentLatest: `return` in the place of `continue`
AfterAbsentLatestReturn(i) == "aborted"

\* Where a run goes when its latest-check is null: `continue`
AfterAbsentLatest(i) == AfterGame(i)

\* Mutant of AfterReadFailure: the catch block does not return
AfterReadFailureGoOn == "game"

\* Where updateDatabase goes when reading or parsing db.json throws: `return`
AfterReadFailure == "aborted"

\* Mutant of StoreExists: the file counts as existing only if it parses
StoreExistsAndParses == fileStatus = "ok"

\* fs.access(DB_PATH) succeeds
StoreExists == fileStatus # "missing"

\* Mutant of StoreReadable: an empty text is taken for an empty mapping
StoreReadableOrEmpty == fileStatus # "missing"

\* fs.readFile and JSON.parse succeed
StoreReadable == fileStatus = "ok"

----------------------------------------------------------------------------
\* The routes GET /api/resultados/:gameName and GET /api/resultados

\* A name that is not in LOTTERY_GAMES
OtherNames == {"federal"}
RequestNames == Games \cup OtherNames

NoRequest == [route |-> "none", gameName |-> ""]
NoResponse == [status |-> 0, body |-> <<>>]

\* Mutant of Supported: the name is not checked
SupportedAny(name) == TRUE

\* LOTTERY_GAMES.includes(gameName)
Supported(name) == \E i \in 1..Len(LOTTERY_GAMES) : LOTTERY_GAMES[i] = name

\* Mutant of QueryReadable: a truncated db.json is read as an empty mapping
QueryReadableOrEmpty == fileStatus # "missing"

\* fs.readFile(DB_PATH) and JSON.parse succeed in a route handler
QueryReadable == fileStatus = "ok"

\* Mutant of GameBody: the window is sent in stored order
GameBodyAsStored(doc, name) == Get(doc, name)

\* [...(database[gameName] || [])].sort((a, b) => b.numero - a.numero)
GameBody(doc, name) == SortDesc(Get(doc, name))

\* res.status(404).json({ error }), res.status(500).json({ error }), res.json(body)
NotFound == [status |-> 404, body |-> <<>>]
ReadError == [status |-> 500, body |-> <<>>]
Ok(body) == [status |-> 200, body |-> body]

----------------------------------------------------------------------------
\* monitor-loterias.js

\* The configured lotteries, in iteration order (three of the nine of the source)
loterias == <<"megasena", "lotofacil", "quina">>

\* Highest value of the clock in the model
MaxClock == 2

\* What a request of the monitor returns: response.data, or an error thrown.
\* The upstream payload may carry a field named ultimaAtualizacao of its own.
Payloads ==
    {[kind |-> "data", numero |-> 1, own |-> FALSE],
     [kind |-> "data", numero |-> 1, own |-> TRUE]}
Failure == [kind |-> "error", numero |-> 0, own |-> FALSE]
Outcomes == Payloads \cup {Failure}

\* { ...response.data, ultimaAtualizacao: timestamp }: the payload's fields, with
\* ultimaAtualizacao set to the timestamp whether or not the payload had one
DataEntry(data, ts) ==
    [erro |-> FALSE, numero |-> data.numero, ultimaAtualizacao |-> ts]

\* { erro: error.message, ultimaAtualizacao: timestamp }
ErrorEntry(ts) == [erro |-> TRUE, numero |-> 0, ultimaAtualizacao |-> ts]

\* Mutant of EntryOf: a failed request leaves no entry
EntryOfSkipFailure(doc, nome, out, ts) ==
    IF out.kind = "data"
    THEN Append(doc, [nome |-> nome, entry |-> DataEntry(out, ts)])
    ELSE doc

\* resultados[loteria.nome] = ... in the try block or in the catch block
EntryOf(doc, nome, out, ts) ==
    LET e == IF out.kind = "data" THEN DataEntry(out, ts) ELSE ErrorEntry(ts)
    IN  IF \E i \in 1..Len(doc) : doc[i].nome = nome
        THEN [i \in 1..Len(doc) |->
                 IF doc[i].nome = nome THEN [nome |-> nome, entry |-> e] ELSE doc[i]]
        ELSE Append(doc, [nome |-> nome, entry |-> e])

----------------------------------------------------------------------------
Init ==
    /\ latest = [g \in Games |-> 0]
    /\ fileStatus = "missing"
    /\ fileData = <<>>
    /\ committed = <<>>
    /\ pcI = "start"
    /\ giI = 1
    /\ dbI = <<>>
    /\ logI = <<>>
    /\ pc = [p \in Passes |-> "idle"]
    /\ gi = [p \in Passes |-> 1]
    /\ db = [p \in Passes |-> <<>>]
    /\ readDoc = [p \in Passes |-> <<>>]
    /\ log = [p \in Passes |-> <<>>]
    /\ missed = [g \in Games |-> {}]
    /\ settled = {}
    /\ qpc = "idle"
    /\ req = NoRequest
    /\ res = NoResponse
    /\ qread = FALSE
    /\ mpc = "idle"
    /\ mi = 1
    /\ resultados = <<>>
    /\ timestamp = 0
    /\ mlog = <<>>
    /\ now = 0
    /\ loteriasJson = <<>>

\* The upstream publishes the next contest of a game
Publish(g) ==
    /\ latest[g] < MaxContest
    /\ latest' = [latest EXCEPT ![g] = @ + 1]
    /\ UNCHANGED <<fileVars, initVars, passVars, otherVars>>

\* app.listen's callback calls initializeDatabase
Listen ==
    /\ pcI = "start"
    /\ pcI' = "access"
    /\ UNCHANGED <<latest, fileVars, giI, dbI, logI, passVars, otherVars>>

\* await fs.access(DB_PATH): return if the file exists, else start with database = {}
InitAccess ==
    /\ pcI = "access"
    /\ pcI' = IF StoreExists THEN "skipped" ELSE "game"
    /\ giI' = 1
    /\ dbI' = <<>>
    /\ UNCHANGED <<latest, fileVars, logI, passVars, otherVars>>

\* One iteration of the loop over the games
InitGame ==
    /\ pcI = "game"
    /\ LET g == LOTTERY_GAMES[giI] IN
       \E r \in LatestOutcomes(g) :
       \E ok \in SUBSET Range(BootstrapNumbers(r)) :
          /\ r = Absent => ok = {}
          /\ dbI' = BootstrapGame(dbI, g, r, ok)
          /\ logI' = logI \o BootstrapLog(g, r, ok)
    /\ pcI' = AfterGame(giI)
    /\ giI' = giI + 1
    /\ UNCHANGED <<latest, fileVars, passVars, otherVars>>

\* fs.writeFile opens db.json, truncating it
InitWriteOpen ==
    /\ pcI = "write"
    /\ pcI' = "writing"
    /\ fileStatus' = "partial"
    /\ fileData' = <<>>
    /\ UNCHANGED <<latest, committed, giI, dbI, logI, passVars, otherVars>>

\* fs.writeFile writes JSON.stringify(database) and the call completes
InitWriteData ==
    /\ pcI = "writing"
    /\ pcI' = "done"
    /\ fileStatus' = "ok"
    /\ fileData' = dbI
    /\ committed' = dbI
    /\ giI' = 1
    /\ dbI' = <<>>
    /\ logI' = <<>>
    /\ UNCHANGED <<latest, passVars, otherVars>>

InProgress(p) == pc[p] \in {"read", "game", "write", "writing"}
InitPopulating == pcI \in {"game", "write", "writing"}

\* The scheduler calls updateDatabase
Tick ==
    /\ \E p \in Passes : ~InProgress(p)
    /\ LET p == CHOOSE q \in Passes :
                   ~InProgress(q) /\ \A o \in Passes : ~InProgress(o) => q <= o
       IN  /\ pc' = [pc EXCEPT ![p] = "read"]
           /\ gi' = [gi EXCEPT ![p] = 1]
           /\ db' = [db EXCEPT ![p] = <<>>]
           /\ readDoc' = [readDoc EXCEPT ![p] = <<>>]
           /\ log' = [log EXCEPT ![p] = <<>>]
    /\ UNCHANGED <<latest, fileVars, initVars, otherVars>>

\* The scheduler calls updateDatabase when no earlier run is in flight
TickAlone ==
    /\ \A p \in Passes : ~InProgress(p)
    /\ Tick

\* await fs.readFile; JSON.parse: on failure log the error and return
UpdRead(p) ==
    /\ pc[p] = "read"
    /\ IF StoreReadable
       THEN /\ pc' = [pc EXCEPT ![p] = "game"]
            /\ db' = [db EXCEPT ![p] = fileData]
            /\ readDoc' = [readDoc EXCEPT ![p] = fileData]
       ELSE /\ pc' = [pc EXCEPT ![p] = AfterReadFailure]
            /\ UNCHANGED <<db, readDoc>>
    /\ UNCHANGED <<latest, fileVars, initVars, gi, log, otherVars>>

\* One iteration of the loop over the games
UpdGame(p) ==
    /\ pc[p] = "game"
    /\ LET g == LOTTERY_GAMES[gi[p]] IN
       \E r \in LatestOutcomes(g) :
       \E ok \in SUBSET Range(UpdateNumbers(db[p], g, r)) :
          /\ db' = [db EXCEPT ![p] = UpdateGame(db[p], g, r, ok)]
          /\ log' = [log EXCEPT ![p] = @ \o UpdateLog(db[p], g, r, ok)]
          /\ pc' = [pc EXCEPT ![p] = IF r = Absent THEN AfterAbsentLatest(gi[p])
                                     ELSE AfterGame(gi[p])]
    /\ gi' = [gi EXCEPT ![p] = @ + 1]
    /\ UNCHANGED <<latest, fileVars, initVars, readDoc, otherVars>>

\* fs.writeFile opens db.json, truncating it
UpdWriteOpen(p) ==
    /\ pc[p] = "write"
    /\ pc' = [pc EXCEPT ![p] = "writing"]
    /\ fileStatus' = "partial"
    /\ fileData' = <<>>
    /\ UNCHANGED <<latest, committed, initVars, gi, db, readDoc, log, otherVars>>

\* fs.writeFile writes JSON.stringify(database) and the call completes
UpdWriteCompletes(p) ==
    /\ pc[p] = "writing"
    /\ pc' = [pc EXCEPT ![p] = "done"]
    /\ fileStatus' = "ok"
    /\ fileData' = db[p]
    /\ committed' = db[p]
    /\ gi' = [gi EXCEPT ![p] = 1]
    /\ db' = [db EXCEPT ![p] = <<>>]
    /\ readDoc' = [readDoc EXCEPT ![p] = <<>>]
    /\ log' = [log EXCEPT ![p] = <<>>]
    /\ UNCHANGED <<latest, initVars, settled, queryVars, monitorVars>>

UpdWriteData(p) == UpdWriteCompletes(p) /\ UNCHANGED missed

\* The same step, with the numbers whose fetch was null in this run kept as history
UpdWriteDataNoting(p) ==
    /\ UpdWriteCompletes(p)
    /\ missed' = [g \in Games |-> Fetched(log[p], g) \ Succeeded(log[p], g)]

\* The process stops at any point and is started again: db.json stays as it is
Crash ==
    /\ pcI # "start" \/ \E p \in Passes : pc[p] # "idle"
    /\ pcI' = "start"
    /\ giI' = 1
    /\ dbI' = <<>>
    /\ logI' = <<>>
    /\ pc' = [p \in Passes |-> "idle"]
    /\ gi' = [p \in Passes |-> 1]
    /\ db' = [p \in Passes |-> <<>>]
    /\ readDoc' = [p \in Passes |-> <<>>]
    /\ log' = [p \in Passes |-> <<>>]
    /\ qpc' = "idle"
    /\ req' = NoRequest
    /\ res' = NoResponse
    /\ qread' = FALSE
    /\ UNCHANGED <<latest, fileVars, missed, settled, monitorVars>>

System ==
    \/ Listen
    \/ InitAccess
    \/ InitGame
    \/ InitWriteOpen
    \/ InitWriteData
    \/ \E p \in Passes : UpdRead(p)
    \/ \E p \in Passes : UpdGame(p)
    \/ \E p \in Passes : UpdWriteOpen(p)
    \/ \E p \in Passes : UpdWriteData(p)
    \/ Crash

\* No run of updateDatabase starts while another is in flight
Next == (\E g \in Games : Publish(g)) \/ TickAlone \/ System
Spec == Init /\ [][Next]_vars

\* Runs of updateDatabase may overlap; the upstream publishes for the first game only
NextOverlap == Publish(LOTTERY_GAMES[1]) \/ Tick \/ System
SpecOverlap == Init /\ [][NextOverlap]_vars

----------------------------------------------------------------------------
\* The two read routes, served while the store is written

\* GET /api/resultados/:gameName arrives: 404 for a name that is not supported,
\* else the handler calls fs.readFile
GetGameStart(name) ==
    /\ qpc = "idle"
    /\ req' = [route |-> "game", gameName |-> name]
    /\ IF Supported(name)
       THEN qpc' = "reading" /\ res' = NoResponse
       ELSE qpc' = "answered" /\ res' = NotFound
    /\ qread' = FALSE
    /\ UNCHANGED <<latest, fileVars, initVars, passVars, missed, settled, monitorVars>>

\* await fs.readFile; JSON.parse; res.json(sorted copy), or 500 from the catch block
GetGameRead ==
    /\ qpc = "reading"
    /\ req.route = "game"
    /\ qpc' = "answered"
    /\ qread' = TRUE
    /\ res' = IF QueryReadable THEN Ok(GameBody(fileData, req.gameName)) ELSE ReadError
    /\ UNCHANGED <<latest, fileVars, initVars, passVars, missed, settled, req, monitorVars>>

\* GET /api/resultados arrives: the handler calls fs.readFile
GetAllStart ==
    /\ qpc = "idle"
    /\ req' = [route |-> "all", gameName |-> ""]
    /\ qpc' = "reading"
    /\ res' = NoResponse
    /\ qread' = FALSE
    /\ UNCHANGED <<latest, fileVars, initVars, passVars, missed, settled, monitorVars>>

\* await fs.readFile; JSON.parse; res.json(database), or 500 from the catch block
GetAllRead ==
    /\ qpc = "reading"
    /\ req.route = "all"
    /\ qpc' = "answered"
    /\ qread' = TRUE
    /\ res' = IF QueryReadable THEN Ok(fileData) ELSE ReadError
    /\ UNCHANGED <<latest, fileVars, initVars, passVars, missed, settled, req, monitorVars>>

\* The response has been sent: the request is over
QueryDone ==
    /\ qpc = "answered"
    /\ qpc' = "idle"
    /\ req' = NoRequest
    /\ res' = NoResponse
    /\ qread' = FALSE
    /\ UNCHANGED <<latest, fileVars, initVars, passVars, missed, settled, monitorVars>>

\* res.json is called in the continuation that parsed the file: no step of the
\* program lies between the answer and the end of the request
NotAnswering == qpc # "answered"

\* One request at a time is followed, while the store is bootstrapped and
\* updated by runs that do not overlap
NextQuery ==
    \/ NotAnswering /\ \E g \in Games : Publish(g)
    \/ NotAnswering /\ TickAlone
    \/ NotAnswering /\ Listen
    \/ NotAnswering /\ InitAccess
    \/ NotAnswering /\ InitGame
    \/ NotAnswering /\ InitWriteOpen
    \/ NotAnswering /\ InitWriteData
    \/ NotAnswering /\ \E p \in Passes : UpdRead(p)
    \/ NotAnswering /\ \E p \in Passes : UpdGame(p)
    \/ NotAnswering /\ \E p \in Passes : UpdWriteOpen(p)
    \/ NotAnswering /\ \E p \in Passes : UpdWriteData(p)
    \/ \E name \in RequestNames : GetGameStart(name)
    \/ GetGameRead
    \/ GetAllStart
    \/ GetAllRead
    \/ QueryDone
SpecQuery == Init /\ [][NextQuery]_vars

----------------------------------------------------------------------------
\* Runs that do not overlap, with the null fetches of the last completed run kept

NextRetry ==
    \/ \E g \in Games : Publish(g)
    \/ TickAlone
    \/ Listen
    \/ InitAccess
    \/ InitGame
    \/ InitWriteOpen
    \/ InitWriteData
    \/ \E p \in Passes : UpdRead(p)
    \/ \E p \in Passes : UpdGame(p)
    \/ \E p \in Passes : UpdWriteOpen(p)
    \/ \E p \in Passes : UpdWriteDataNoting(p)
SpecRetry == Init /\ [][NextRetry]_vars

----------------------------------------------------------------------------
\* An upstream that settles, a scheduler that keeps firing, steps that complete

\* The upstream publishes the next contest of a game that has not settled
PublishLive(g) == g \notin settled /\ Publish(g)

\* From now on the latest contest of g stays what it is, and the latest-check
\* and the fetch of that contest succeed
Settle(g) ==
    /\ g \notin settled
    /\ settled' = settled \cup {g}
    /\ UNCHANGED <<latest, fileVars, initVars, passVars, missed, queryVars, monitorVars>>

\* One iteration of the loop over the games, the fetches of a settled game
\* answering as settled
UpdGameLive(p) ==
    /\ pc[p] = "game"
    /\ LET g == LOTTERY_GAMES[gi[p]] IN
       \E r \in LatestOutcomes(g) :
       \E ok \in SUBSET Range(UpdateNumbers(db[p], g, r)) :
          /\ g \in settled =>
                /\ r = latest[g]
                /\ latest[g] \in Range(UpdateNumbers(db[p], g, r)) => latest[g] \in ok
          /\ db' = [db EXCEPT ![p] = UpdateGame(db[p], g, r, ok)]
          /\ log' = [log EXCEPT ![p] = @ \o UpdateLog(db[p], g, r, ok)]
          /\ pc' = [pc EXCEPT ![p] = IF r = Absent THEN AfterAbsentLatest(gi[p])
                                     ELSE AfterGame(gi[p])]
    /\ gi' = [gi EXCEPT ![p] = @ + 1]
    /\ UNCHANGED <<latest, fileVars, initVars, readDoc, otherVars>>

InitStep == Listen \/ InitAccess \/ InitGame \/ InitWriteOpen \/ InitWriteData
PassStep ==
    \E p \in Passes : UpdRead(p) \/ UpdGameLive(p) \/ UpdWriteOpen(p) \/ UpdWriteData(p)

\* The upstream publishes for the first game only; either game may settle
NextLive ==
    \/ PublishLive(LOTTERY_GAMES[1])
    \/ \E g \in Games : Settle(g)
    \/ TickAlone
    \/ InitStep
    \/ PassStep

\* A step of a run of updateDatabase, whatever its fetches return.  UpdGame is
\* enabled exactly when UpdGameLive is, and every UpdGameLive step is one of its steps.
RunStep ==
    \E p \in Passes : UpdRead(p) \/ UpdGame(p) \/ UpdWriteOpen(p) \/ UpdWriteData(p)

\* The daily tick keeps firing when no run is in flight, and every await of
\* initializeDatabase and of updateDatabase completes
SpecLive ==
    /\ Init
    /\ [][NextLive]_vars
    /\ WF_vars(TickAlone)
    /\ WF_vars(InitStep)
    /\ WF_vars(RunStep)

----------------------------------------------------------------------------
\* monitor-loterias.js: fetchLoteriaData, called at start and by the daily schedule

\* Time passes
ClockTick ==
    /\ now < MaxClock
    /\ now' = now + 1
    /\ UNCHANGED <<serverVars, mpc, mi, resultados, timestamp, mlog, loteriasJson>>

\* fetchLoteriaData is called: resultados = {}, timestamp = new Date().toISOString()
MonitorStart ==
    /\ mpc = "idle"
    /\ mpc' = "loop"
    /\ mi' = 1
    /\ resultados' = <<>>
    /\ timestamp' = now
    /\ mlog' = <<>>
    /\ UNCHANGED <<serverVars, now, loteriasJson>>

\* One iteration of the loop over loterias: the request answers or throws
MonitorFetch ==
    /\ mpc = "loop"
    /\ \E out \in Outcomes :
          /\ resultados' = EntryOf(resultados, loterias[mi], out, timestamp)
          /\ mlog' = Append(mlog, out)
    /\ mi' = mi + 1
    /\ mpc' = IF mi = Len(loterias) THEN "write" ELSE "loop"
    /\ UNCHANGED <<serverVars, timestamp, now, loteriasJson>>

\* fs.writeFileSync('loterias.json', JSON.stringify(resultados)); the run returns
MonitorWrite ==
    /\ mpc = "write"
    /\ loteriasJson' = resultados
    /\ mpc' = "idle"
    /\ UNCHANGED <<serverVars, mi, resultados, timestamp, mlog, now>>

NextMonitor == ClockTick \/ MonitorStart \/ MonitorFetch \/ MonitorWrite
SpecMonitor == Init /\ [][NextMonitor]_vars

----------------------------------------------------------------------------
\* Vocabulary of the properties

NoDup(s) == \A i, j \in 1..Len(s) : i # j => s[i] # s[j]

\* The documents the program holds: the file when it parses, and the local copies
DocsInUse ==
    {dbI} \cup {db[p] : p \in Passes} \cup (IF fileStatus = "ok" THEN {fileData} ELSE {})

\* The highest number of a set of contest numbers, 0 when it is empty
Highest(S) == IF S = {} THEN 0 ELSE CHOOSE m \in S : \A x \in S : x <= m

\* w holds the n highest numbers of S (all of S if it has fewer), in ascending order
IsTopAscending(w, S, n) ==
    /\ Range(w) \subseteq S
    /\ Len(w) = (IF Cardinality(S) < n THEN Cardinality(S) ELSE n)
    /\ \A i \in 1..(Len(w) - 1) : w[i] < w[i + 1]
    /\ \A x \in S \ Range(w) : \A y \in Range(w) : x < y

\* A run of updateDatabase has processed every game and is at its write
AtWrite(p) == pc[p] \in {"write", "writing"}

----------------------------------------------------------------------------
\* C1 (Uniqueness): no window of the store document, nor of a document a run
\* holds, contains two records with the same contest number.
C1_Uniqueness ==
    \A doc \in DocsInUse : \A g \in Games : NoDup(Get(doc, g))

\* A run has merged new contests into a window that had a gap and is writing it,
\* over a document an earlier write committed.
C1_Witness ==
    \E p \in Passes : \E g \in Games :
        /\ pc[p] = "writing"
        /\ Len(Get(readDoc[p], g)) >= 1
        /\ Succeeded(log[p], g) # {}
        /\ Succeeded(log[p], g) # Fetched(log[p], g)
        /\ Len(Get(db[p], g)) = CONTESTS_TO_STORE

\* C2 (Bound): every window of the store document, and of a document a run
\* holds, has at most CONTESTS_TO_STORE records, whatever the gap to the latest.
C2_Bound ==
    \A doc \in DocsInUse : \A g \in Games : Len(Get(doc, g)) <= CONTESTS_TO_STORE

\* A run that found the latest contest more than CONTESTS_TO_STORE ahead of the
\* stored one, and got more records than fit, is writing a full window.
C2_Witness ==
    \E p \in Passes : \E g \in Games :
        /\ pc[p] = "writing"
        /\ Cardinality(Fetched(log[p], g)) > CONTESTS_TO_STORE
        /\ Cardinality(Succeeded(log[p], g)) + Len(Get(readDoc[p], g)) > CONTESTS_TO_STORE
        /\ Len(Get(db[p], g)) = CONTESTS_TO_STORE

\* The run p completes its write in this step
CompletesWrite(p) == pc[p] = "writing" /\ pc'[p] = "done"

\* C3 (No downgrade): a run that completes its write removes a contest number k
\* that the store held before the write only if the window it wrote holds at
\* least CONTESTS_TO_STORE numbers greater than k, overlapping runs included.
C3_NoDowngrade ==
    [][\A p \in Passes : CompletesWrite(p) =>
          \A g \in Games : \A k \in Range(Get(committed, g)) :
              \/ k \in Range(Get(fileData', g))
              \/ Cardinality({j \in Range(Get(fileData', g)) : j > k}) >= CONTESTS_TO_STORE
      ]_vars

\* The latest-check of game g returned a number above the maximum the run read
FoundNews(p, g) ==
    LatestResult(log[p], g) > Highest(Range(Get(readDoc[p], g)))

\* C4 (Merge and trim): without overlapping runs, for a game whose latest-check
\* returned L_api > L_stored, the run fetched exactly L_stored+1 .. L_api and the
\* window it writes holds the CONTESTS_TO_STORE highest numbers of the window it
\* read and the fetches that succeeded, in ascending order.
C4_MergeAndTrim ==
    [][\A p \in Passes : CompletesWrite(p) =>
          /\ fileStatus' = "ok"
          /\ \A g \in Games : FoundNews(p, g) =>
               /\ Fetched(log[p], g) =
                    (Highest(Range(Get(readDoc[p], g))) + 1) .. LatestResult(log[p], g)
               /\ IsTopAscending(Get(fileData', g),
                                 Range(Get(readDoc[p], g)) \cup Succeeded(log[p], g),
                                 CONTESTS_TO_STORE)
      ]_vars

\* A run read a full window, found the latest two contests ahead, got the latest
\* but not the one before it, and is writing the window without its oldest number.
C4_Witness ==
    \E p \in Passes : \E g \in Games :
        /\ pc[p] = "writing"
        /\ Len(Get(readDoc[p], g)) = CONTESTS_TO_STORE
        /\ LatestResult(log[p], g) = Highest(Range(Get(readDoc[p], g))) + 2
        /\ Succeeded(log[p], g) = {LatestResult(log[p], g)}
        /\ Len(Get(db[p], g)) = CONTESTS_TO_STORE
        /\ Get(db[p], g)[1] = Get(readDoc[p], g)[2]

\* The latest-check of every game returned null or nothing above the stored maximum
Quiet(p) ==
    \A g \in Games :
        /\ Checked(log[p], g)
        /\ LatestResult(log[p], g) <= Highest(Range(Get(readDoc[p], g)))

\* C5 (Idempotence): without overlapping runs, a run during which the upstream
\* shows no new contest for any game writes the very document the previous
\* write left in the store, key for key and record for record.
C5_Idempotence ==
    [][\A p \in Passes : CompletesWrite(p) /\ Quiet(p) =>
          /\ fileStatus' = "ok"
          /\ fileData' = committed
          /\ fileData' = readDoc[p]
      ]_vars

\* A run that saw no new contest is completing its write over a store that holds
\* a window for one game and no key for another.
C5_Witness ==
    \E p \in Passes :
        /\ pc[p] = "writing"
        /\ Quiet(p)
        /\ \E g \in Games : Len(Get(committed, g)) = CONTESTS_TO_STORE
                            /\ LatestResult(log[p], g) = Highest(Range(Get(committed, g)))
        /\ \E g \in Games : ~HasKey(committed, g)

\* The step changes something of the run p
StepOf(p) == <<pc[p], gi[p], db[p], readDoc[p], log[p]>>' # <<pc[p], gi[p], db[p], readDoc[p], log[p]>>

\* C6 (Read failure aborts): a run that starts when db.json is missing or does
\* not parse ends at its read: it issues no fetch and no write, and db.json is
\* left exactly as it was.
C6_ReadFailureAborts ==
    [][\A p \in Passes :
          /\ (pc[p] = "read" /\ fileStatus # "ok" /\ StepOf(p)) =>
                /\ pc'[p] \in {"aborted", "idle"}
                /\ log'[p] = <<>>
                /\ UNCHANGED <<fileStatus, fileData, committed>>
          /\ (pc[p] = "aborted" /\ StepOf(p)) =>
                /\ pc'[p] \in {"read", "idle"}
                /\ log'[p] = <<>>
                /\ UNCHANGED <<fileStatus, fileData, committed>>
      ]_vars

\* A run has aborted at its read while db.json was truncated by a write in progress.
C6_Witness ==
    \E p \in Passes : pc[p] = "aborted" /\ fileStatus = "partial" /\ pcI = "writing"

\* C7 (Single write at the end): a run that read the store changes db.json only
\* by one write, begun after every game was processed: no step of the run
\* before that write changes db.json, so a run that stops earlier leaves the
\* committed document intact.
C7_SingleWriteAtEnd ==
    [][\A p \in Passes :
          /\ (pc[p] \in {"read", "game"} /\ StepOf(p)) =>
                UNCHANGED <<fileStatus, fileData, committed>>
          /\ (pc[p] # "write" /\ pc'[p] = "write") =>
                /\ \A g \in Games : Checked(log'[p], g)
                /\ gi'[p] = Len(LOTTERY_GAMES) + 1
          /\ (pc[p] = "write" /\ StepOf(p)) => pc'[p] \in {"writing", "idle"}
          /\ (pc[p] = "writing" /\ StepOf(p)) =>
                \/ pc'[p] = "idle" /\ UNCHANGED <<fileStatus, fileData, committed>>
                \/ pc'[p] = "done" /\ fileStatus' = "ok" /\ fileData' = db[p]
          /\ (pc[p] = "done" /\ StepOf(p)) =>
                /\ pc'[p] \in {"read", "idle"}
                /\ UNCHANGED <<fileStatus, fileData, committed>>
      ]_vars

\* A run has processed every game and holds a document that differs from the
\* committed one, which is still in db.json.
C7_Witness ==
    \E p \in Passes :
        /\ pc[p] = "write"
        /\ db[p] # readDoc[p]
        /\ fileStatus = "ok"
        /\ fileData = readDoc[p]
        /\ \A g \in Games : Succeeded(log[p], g) # {}

\* C8 (Per-game isolation): a null latest-check, or null numbered fetches, for one
\* game never end a run of initializeDatabase or updateDatabase: the run goes on
\* to the other games and reaches its write having checked every game, and
\* updateDatabase writes back unchanged the window of a game whose latest-check
\* was null (initializeDatabase gives such a game no key).
C8_PerGameIsolation ==
    /\ [](\A p \in Passes : AtWrite(p) =>
            \A g \in Games :
                /\ Checked(log[p], g)
                /\ LatestResult(log[p], g) = Absent =>
                      /\ Get(db[p], g) = Get(readDoc[p], g)
                      /\ HasKey(db[p], g) <=> HasKey(readDoc[p], g))
    /\ [](pcI \in {"write", "writing"} =>
            \A g \in Games :
                /\ Checked(logI, g)
                /\ HasKey(dbI, g) <=> LatestResult(logI, g) # Absent
                /\ Range(Get(dbI, g)) = Succeeded(logI, g))
    /\ [][/\ \A p \in Passes :
                /\ (pc[p] = "game" /\ StepOf(p)) => pc'[p] \in {"game", "write", "idle"}
                /\ CompletesWrite(p) =>
                      \A g \in Games : LatestResult(log[p], g) = Absent =>
                          Get(fileData', g) = Get(readDoc[p], g)
          /\ (pcI = "game" /\ giI' # giI) => pcI' \in {"game", "write", "start"}
       ]_vars

\* A run whose latest-check for the first game was null, over a stored window of
\* that game, has merged new contests for the second game and is writing.
C8_Witness ==
    \E p \in Passes :
        /\ pc[p] = "writing"
        /\ LatestResult(log[p], LOTTERY_GAMES[1]) = Absent
        /\ Get(readDoc[p], LOTTERY_GAMES[1]) # <<>>
        /\ Succeeded(log[p], LOTTERY_GAMES[2]) # {}
        /\ Succeeded(log[p], LOTTERY_GAMES[2]) # Fetched(log[p], LOTTERY_GAMES[2])

\* C9 (Bootstrap runs once): initializeDatabase fetches and writes only when
\* db.json does not exist, writes once after every game was checked (an empty
\* mapping when every latest-check was null), and once db.json exists it never
\* ceases to exist, a later call of initializeDatabase returns without a fetch or
\* a write, and no run of updateDatabase fetches a contest number at or below
\* the maximum it read.
C9_BootstrapOnce ==
    /\ [](pcI \in {"game", "write"} => fileStatus = "missing")
    /\ [](pcI = "writing" => fileStatus = "partial")
    /\ [](pcI = "skipped" => logI = <<>> /\ dbI = <<>>)
    /\ [](pcI \in {"write", "writing"} =>
            /\ giI = Len(LOTTERY_GAMES) + 1
            /\ \A g \in Games : Checked(logI, g))
    /\ [](\A p \in Passes : \A g \in Games : \A k \in Fetched(log[p], g) :
            k > Highest(Range(Get(readDoc[p], g))))
    /\ [][/\ fileStatus # "missing" => fileStatus' # "missing"
          /\ (pcI = "access" /\ pcI' = "game") => fileStatus = "missing"
          /\ (pcI = "access" /\ fileStatus # "missing" /\ pcI' # pcI) =>
                /\ pcI' \in {"skipped", "start"}
                /\ UNCHANGED <<fileStatus, fileData, committed>>
          /\ (pcI = "write" /\ pcI' # pcI) => pcI' \in {"writing", "start"}
          /\ (pcI = "writing" /\ pcI' # pcI) =>
                \/ pcI' = "start" /\ UNCHANGED <<fileStatus, fileData, committed>>
                \/ pcI' = "done" /\ fileStatus' = "ok" /\ fileData' = dbI
          /\ (pcI \in {"done", "skipped"} /\ pcI' # pcI) =>
                /\ pcI' = "start"
                /\ UNCHANGED <<fileStatus, fileData, committed>>
          /\ (logI' # logI /\ logI' # <<>>) => fileStatus = "missing"
       ]_vars

\* After a restart, initializeDatabase has returned at once over a store that
\* holds the empty mapping an earlier bootstrap wrote.
C9_Witness ==
    /\ pcI = "skipped"
    /\ fileStatus = "ok"
    /\ fileData = <<>>
    /\ \E g \in Games : latest[g] > 0

\* initializeDatabase has been called and has not returned
InitInProgress == pcI \in {"access", "game", "write", "writing"}

\* C10 as stated: no run of updateDatabase is in progress while
\* initializeDatabase is in progress.
C10_NeverConcurrent ==
    ~(InitInProgress /\ \E p \in Passes : InProgress(p))

\* C10 as amended: while initializeDatabase is populating the store (its existence
\* check failed and its write is not complete), a run of updateDatabase is at
\* most at its read, which fails: no run is past its read, none has fetched.
C10_NoUpdatePastReadWhilePopulating ==
    InitPopulating =>
        \A p \in Passes : pc[p] \in {"idle", "read", "aborted"} /\ log[p] = <<>>

\* A run of updateDatabase started during the bootstrap has aborted at its read
\* while initializeDatabase, one game done, is still fetching.
C10_Witness ==
    /\ pcI = "game"
    /\ giI = 2
    /\ logI # <<>>
    /\ \E p \in Passes : pc[p] = "aborted"

\* The numbers of w are in strictly ascending order
IsAscending(w) == \A i \in 1..(Len(w) - 1) : w[i] < w[i + 1]

\* The lowest number of a bootstrap window whose latest contest is L
WindowStart(L) == IF L - CONTESTS_TO_STORE + 1 < 1 THEN 1 ELSE L - CONTESTS_TO_STORE + 1

\* C11 (Bootstrap window contents): when initializeDatabase has processed every
\* game, a game whose latest-check returned L has been fetched for exactly the
\* numbers max(1, L - CONTESTS_TO_STORE + 1) .. L and its window holds exactly
\* the numbers whose fetch succeeded, in ascending order; a game whose
\* latest-check was null has no fetch and no window; and the document written
\* is that one.
C11_BootstrapWindow ==
    /\ [](pcI \in {"write", "writing"} =>
            \A g \in Games :
                IF LatestResult(logI, g) = Absent
                THEN Fetched(logI, g) = {} /\ ~HasKey(dbI, g)
                ELSE /\ Fetched(logI, g) =
                          WindowStart(LatestResult(logI, g)) .. LatestResult(logI, g)
                     /\ HasKey(dbI, g)
                     /\ Range(Get(dbI, g)) = Succeeded(logI, g)
                     /\ Len(Get(dbI, g)) = Cardinality(Succeeded(logI, g))
                     /\ IsAscending(Get(dbI, g)))
    /\ [][(pcI = "writing" /\ pcI' = "done") => fileStatus' = "ok" /\ fileData' = dbI]_vars

\* The bootstrap found the latest contest of one game beyond the window size,
\* got every record of its window, found no latest contest for another game,
\* and is writing.
C11_Witness ==
    /\ pcI = "writing"
    /\ \E g \in Games :
          /\ LatestResult(logI, g) > CONTESTS_TO_STORE
          /\ Succeeded(logI, g) = Fetched(logI, g)
          /\ Len(Get(dbI, g)) = CONTESTS_TO_STORE
    /\ \E g \in Games : LatestResult(logI, g) = Absent /\ latest[g] > 0

\* The number of fetches, latest-check included, a log holds for a game
FetchCount(l, g) == Cardinality({i \in 1..Len(l) : l[i][1] = g})

\* C12 (No new contests, no work): without overlapping runs, for a game whose
\* latest-check returned a number at or below the maximum of the window the run
\* read, the run issued no fetch but the latest-check and the window it writes
\* is the one it read.
C12_NoNewsNoWork ==
    [][\A p \in Passes : CompletesWrite(p) =>
          \A g \in Games :
              (/\ LatestResult(log[p], g) # Absent
               /\ LatestResult(log[p], g) <= Highest(Range(Get(readDoc[p], g)))) =>
                  /\ Fetched(log[p], g) = {}
                  /\ FetchCount(log[p], g) = 1
                  /\ Get(fileData', g) = Get(readDoc[p], g)
                  /\ HasKey(fileData', g) <=> HasKey(readDoc[p], g)
      ]_vars

\* A run found the latest contest of one game already stored, in a full window,
\* and new contests for another game, and is writing.
C12_Witness ==
    \E p \in Passes :
        /\ pc[p] = "writing"
        /\ \E g \in Games :
              /\ Len(Get(readDoc[p], g)) = CONTESTS_TO_STORE
              /\ LatestResult(log[p], g) = Highest(Range(Get(readDoc[p], g)))
        /\ \E g \in Games : Succeeded(log[p], g) # {}

\* C13 (Storage order): whenever db.json holds a document, every window of it
\* is in strictly ascending order of contest number; so is every window of the
\* last completed write.
C13_StorageOrder ==
    /\ fileStatus = "ok" => \A g \in Games : IsAscending(Get(fileData, g))
    /\ \A g \in Games : IsAscending(Get(committed, g))

\* A run of updateDatabase has written a document with a full window for every
\* game, one of them with a gap in its numbers.
C13_Witness ==
    /\ fileStatus = "ok"
    /\ \E p \in Passes : pc[p] = "done"
    /\ \A g \in Games : Len(Get(fileData, g)) = CONTESTS_TO_STORE
    /\ \E g \in Games : Get(fileData, g)[2] > Get(fileData, g)[1] + 1

\* C18 (Gaps are never filled): without overlapping runs, a run adds to a window
\* only numbers above the maximum of the window it read; so a number missing
\* from the stored window and below its maximum is not in the window a later
\* write leaves.
C18_GapsNeverFilled ==
    /\ [](\A p \in Passes : \A g \in Games :
            \A k \in Range(Get(db[p], g)) \ Range(Get(readDoc[p], g)) :
                k > Highest(Range(Get(readDoc[p], g))))
    /\ [][\A p \in Passes : CompletesWrite(p) =>
            \A g \in Games : \A k \in 1..MaxContest :
                (/\ k \notin Range(Get(committed, g))
                 /\ k < Highest(Range(Get(committed, g)))) =>
                    k \notin Range(Get(fileData', g))
       ]_vars

\* A run read a window with a gap, fetched the contests above its maximum while
\* the missing number was still published upstream, and is writing.
C18_Witness ==
    \E p \in Passes : \E g \in Games :
        /\ pc[p] = "writing"
        /\ Len(Get(readDoc[p], g)) = CONTESTS_TO_STORE
        /\ Get(readDoc[p], g)[2] > Get(readDoc[p], g)[1] + 1
        /\ Succeeded(log[p], g) # {}
        /\ Get(db[p], g) # Get(readDoc[p], g)

\* A request has been answered in this step
Answers == qpc # "answered" /\ qpc' = "answered"

\* C14 (Unsupported game): a request for a game name outside LOTTERY_GAMES is
\* answered 404 at once, whatever the state of db.json (missing, truncated by a
\* write in progress, or holding a document): the handler never reaches
\* fs.readFile and db.json is left as it is.
C14_UnsupportedGame ==
    /\ [](qpc = "reading" /\ req.route = "game" => req.gameName \in Games)
    /\ []((qpc = "answered" /\ req.route = "game" /\ req.gameName \notin Games) =>
             res = NotFound /\ ~qread)
    /\ [][(qpc = "idle" /\ req'.route = "game" /\ req'.gameName \notin Games) =>
             /\ qpc' = "answered"
             /\ res'.status = 404
             /\ ~qread'
             /\ UNCHANGED <<fileStatus, fileData, committed>>
       ]_vars

\* A request for an unsupported name has been answered 404 while a run of
\* updateDatabase has db.json truncated.
C14_Witness ==
    /\ qpc = "answered"
    /\ req.gameName \in OtherNames
    /\ res.status = 404
    /\ fileStatus = "partial"
    /\ \E p \in Passes : pc[p] = "writing"

\* The numbers of b are those of w, each once, in strictly descending order
IsDescendingOf(b, w) ==
    /\ Len(b) = Len(w)
    /\ Range(b) = Range(w)
    /\ \A i \in 1..(Len(b) - 1) : b[i] > b[i + 1]

\* C15 (Query contents): when db.json holds a document at the handler's read,
\* the request for a supported game is answered 200 with the records of that
\* game's stored window in descending order of contest number (an empty list
\* when the document has no window for it), the request for all games is
\* answered 200 with the document as stored, and no step of a request changes
\* db.json.
C15_QueryContents ==
    [][/\ (Answers /\ qpc = "reading" /\ fileStatus = "ok") =>
             /\ res'.status = 200
             /\ req.route = "game" =>
                   IsDescendingOf(res'.body, Get(fileData, req.gameName))
             /\ req.route = "all" => res'.body = fileData
       /\ qpc' # qpc => UNCHANGED <<fileStatus, fileData, committed>>
      ]_vars

\* The request for a game has been answered with a full window, newest first,
\* out of a document whose windows are stored oldest first.
C15_Witness ==
    /\ qpc = "answered"
    /\ req.route = "game"
    /\ res.status = 200
    /\ fileStatus = "ok"
    /\ Len(res.body) = CONTESTS_TO_STORE
    /\ res.body[1] = Get(fileData, req.gameName)[CONTESTS_TO_STORE]
    /\ res.body[1] > res.body[CONTESTS_TO_STORE]

\* C16 (Store unavailable): when db.json is missing or does not parse at the
\* handler's read (before the bootstrap has written it, or while a write is in
\* progress), the request for a supported game and the request for all games
\* are answered 500 with no contest data; an answer with contest data is always
\* the content db.json has at that moment.
C16_StoreUnavailable ==
    /\ [][(Answers /\ qpc = "reading" /\ fileStatus # "ok") =>
             res' = ReadError /\ UNCHANGED <<fileStatus, fileData, committed>>
       ]_vars
    /\ []((qpc = "answered" /\ res.status = 200) =>
             /\ fileStatus = "ok"
             /\ req.route = "game" => IsDescendingOf(res.body, Get(fileData, req.gameName))
             /\ req.route = "all" => res.body = fileData)

\* A request for a supported game has been answered 500 while a run of
\* updateDatabase has db.json truncated, over a document committed earlier.
C16_Witness ==
    /\ qpc = "answered"
    /\ req.route = "game"
    /\ req.gameName \in Games
    /\ res.status = 500
    /\ fileStatus = "partial"
    /\ \E p \in Passes : pc[p] = "writing"
    /\ Get(committed, req.gameName) # <<>>

\* C17 (Retry only by the next tick): a run fetches no contest twice, and a
\* contest number whose fetch was null in the last completed run is fetched by
\* the next run, when that run's latest-check returns at least that number.
C17_RetryByNextTick ==
    /\ \A p \in Passes : \A i, j \in 1..Len(log[p]) :
          i # j => <<log[p][i][1], log[p][i][2]>> # <<log[p][j][1], log[p][j][2]>>
    /\ \A p \in Passes : AtWrite(p) =>
          \A g \in Games : \A k \in missed[g] :
              LatestResult(log[p], g) >= k => k \in Fetched(log[p], g)

\* C19 (Eventual catch-up): with ticks that keep firing, runs that do not
\* overlap and steps that complete, once db.json exists and the upstream of a
\* game has settled at L (its latest-check and the fetch of L succeed from then
\* on), the maximum of the game's stored window eventually is L and stays L.
C19_EventuallyLatest ==
    \A g \in Games :
        <>[](g \in settled /\ StoreExists) =>
            <>[](Highest(Range(Get(committed, g))) = latest[g])

\* The upstream of a game settled beyond the window size and a later run has
\* written a window that ends with the latest contest.
C19_Witness ==
    \E g \in Games :
        /\ g \in settled
        /\ latest[g] > CONTESTS_TO_STORE
        /\ fileStatus = "ok"
        /\ \E p \in Passes : pc[p] = "done"
        /\ Len(Get(fileData, g)) = CONTESTS_TO_STORE
        /\ Highest(Range(Get(fileData, g))) = latest[g]

\* C20 (Monitor script): a run of fetchLoteriaData requests every configured
\* lottery whatever the earlier requests returned, and writes a document with
\* one entry for each configured lottery, in order: the payload of the request
\* that answered, an error entry for the request that failed, each with the
\* timestamp the run took at its start.
C20_MonitorDocument ==
    /\ [](mpc = "write" => Len(mlog) = Len(loterias))
    /\ [][/\ (mpc = "loop" /\ mi' # mi) =>
                /\ mpc' \in {"loop", "write"}
                /\ Len(mlog') = mi
          /\ (mpc = "write" /\ mpc' # mpc) =>
                /\ Len(loteriasJson') = Len(loterias)
                /\ \A i \in 1..Len(loterias) :
                      /\ loteriasJson'[i].nome = loterias[i]
                      /\ loteriasJson'[i].entry.ultimaAtualizacao = timestamp
                      /\ loteriasJson'[i].entry.erro <=> (mlog[i].kind = "error")
                      /\ loteriasJson'[i].entry.numero = mlog[i].numero
       ]_vars

\* A run whose first request failed and whose later requests answered, one with
\* an ultimaAtualizacao of its own, has written its document after the clock
\* moved on.
C20_Witness ==
    /\ mpc = "idle"
    /\ loteriasJson # <<>>
    /\ loteriasJson = resultados
    /\ mlog[1].kind = "error"
    /\ \E i \in 2..Len(loterias) : mlog[i].kind = "data" /\ mlog[i].own
    /\ now > timestamp

====
